---- MODULE Spec2Model ----
(***************************************************************************)
(* A model of the numeric core of the Data_Analysis-Tool repository:       *)
(*   OutlierDetector.detect_outliers   (src/outlier_detector.py)           *)
(*   FeatureAnalyzer.feature_importance (src/feature_analyzer.py)          *)
(*   DataCleaner.drop_rows             (src/data_cleaner.py)               *)
(*                                                                         *)
(* A pandas DataFrame is modelled column-wise: an index (row labels) and a *)
(* sequence of columns, each with a name, a dtype ("number" or "object")   *)
(* and its cells.  Numeric cells are integers, or NaN (a missing value).   *)
(* All arithmetic is exact: a quotient is never formed, both sides of a    *)
(* comparison are multiplied out instead, so z-scores and interpolated     *)
(* quantiles are compared as the real numbers they denote.                 *)
(***************************************************************************)
EXTENDS Integers, Sequences, FiniteSets, TLC

\* Bounds of the model.
MaxRows == 4
MaxVal == 1

\* The missing-value marker of a numeric column (numpy.nan).
NaN == -1

VARIABLES
    df,         \* the DataFrame held as self.df by both analysers
    op,         \* the last call: "none", "detect_outliers", "feature_importance"
    method,     \* detect_outliers: the method argument of the last call
    threshold,  \* detect_outliers: the threshold argument, a rational num/den
    outliers,   \* detect_outliers: the DataFrame returned
    target,     \* feature_importance: the target_column argument of the last call
    exit,       \* feature_importance: where the last call ended
    steps,      \* feature_importance: the library calls the try block completed
    importances,\* feature_importance: X.columns with model.feature_importances_
    ranking,    \* feature_importance: that frame after sort_values, if built
    stdout,     \* what the last call printed
    np_random,  \* the state of numpy's global random generator
    fitted,     \* feature_importance: what each call so far was given and gave
    recalled,   \* feature_importance: the last call had the target of an earlier one
    clean,      \* DataCleaner: self.df, the cleaner's own copy of the DataFrame
    changes_log,\* DataCleaner: self.changes_log
    index_range,\* DataCleaner: the argument of the last drop_rows call
    raised      \* DataCleaner: the exception the last call raised, "" when it returned

vars == <<df, op, method, threshold, outliers, target, exit, steps, importances, ranking,
          stdout, np_random, fitted, recalled, clean, changes_log, index_range, raised>>

-----------------------------------------------------------------------------
(* Sequences and DataFrames                                                *)

Range(s) == {s[i] : i \in DOMAIN s}

RECURSIVE SeqSum(_)
SeqSum(s) == IF s = <<>> THEN 0 ELSE Head(s) + SeqSum(Tail(s))

\* The positions of s where mask holds, in increasing order.
RECURSIVE Positions(_, _)
Positions(mask, i) ==
    IF i > Len(mask) THEN <<>>
    ELSE IF mask[i] THEN <<i>> \o Positions(mask, i + 1)
    ELSE Positions(mask, i + 1)

Take(s, pos) == [k \in 1..Len(pos) |-> s[pos[k]]]

\* pd.DataFrame(): no rows, no columns.
EmptyDataFrame == [index |-> <<>>, columns |-> <<>>]

NumRows(t) == Len(t.index)

IsNumber(col) == col.dtype = "number"

\* df.select_dtypes(include=['number']): the numeric columns, in source order.
select_dtypes(t) == [t EXCEPT !.columns = SelectSeq(t.columns, IsNumber)]

\* BooleanIndex followed by reset_index(drop=True): the rows relabelled 0, 1, ...
BooleanIndexReset(t, mask) ==
    LET pos == Positions(mask, 1)
    IN  [index |-> [k \in 1..Len(pos) |-> k - 1],
         columns |-> [c \in 1..Len(t.columns) |->
                        [t.columns[c] EXCEPT !.data = Take(t.columns[c].data, pos)]]]

\* frame[mask] with a boolean mask: the rows where the mask holds, in order.
BooleanIndex(t, mask) ==
    LET pos == Positions(mask, 1)
    IN  [index |-> Take(t.index, pos),
         columns |-> [c \in 1..Len(t.columns) |->
                        [t.columns[c] EXCEPT !.data = Take(t.columns[c].data, pos)]]]

\* (frame_of_booleans).any(axis=1): one boolean per row; frame[c] is the
\* boolean column c.
AnyAxis1(frame, n) == [i \in 1..n |-> \E c \in DOMAIN frame : frame[c][i]]

-----------------------------------------------------------------------------
(* method == 'zscore'                                                      *)

HasNaN(d) == \E i \in DOMAIN d : d[i] = NaN

Square(v) == v * v

\* ZscoreAbove with the sample standard deviation (ddof = 1) in place of the
\* population one: zscore^2 = dev^2 * (n - 1) / ss.
ZscoreAboveSampleStd(d, thr) ==
    LET n == Len(d)
        total == SeqSum(d)
        dev == [j \in 1..n |-> n * d[j] - total]
        ss == SeqSum([j \in 1..n |-> Square(dev[j])])
    IN  [i \in 1..n |->
            /\ ~HasNaN(d)
            /\ ss > 0
            /\ \/ thr.num < 0
               \/ Square(dev[i]) * (n - 1) * Square(thr.den) > Square(thr.num) * ss]

\* ZscoreAbove with >= in place of >.
ZscoreAtLeast(d, thr) ==
    LET n == Len(d)
        total == SeqSum(d)
        dev == [j \in 1..n |-> n * d[j] - total]
        ss == SeqSum([j \in 1..n |-> Square(dev[j])])
    IN  [i \in 1..n |->
            /\ ~HasNaN(d)
            /\ ss > 0
            /\ \/ thr.num < 0
               \/ Square(dev[i]) * n * Square(thr.den) >= Square(thr.num) * ss]

\* np.abs(stats.zscore(a)) > threshold for one column d of a, cell by cell.
\* zscore = (d - mean) / std with mean = sum / n and std = sqrt(mean((d - mean)^2))
\* (ddof = 0, scipy's default).  A NaN cell makes mean and std NaN (nan_policy
\* 'propagate'), std = 0 makes the quotient NaN, and NaN > threshold is False.
\* With dev = n * (d - mean) and ss = sum(dev^2) = n^3 * std^2:
\* zscore^2 = dev^2 * n / ss.
ZscoreAbove(d, thr) ==
    LET n == Len(d)
        total == SeqSum(d)
        dev == [j \in 1..n |-> n * d[j] - total]
        ss == SeqSum([j \in 1..n |-> Square(dev[j])])
    IN  [i \in 1..n |->
            /\ ~HasNaN(d)
            /\ ss > 0
            /\ \/ thr.num < 0
               \/ Square(dev[i]) * n * Square(thr.den) > Square(thr.num) * ss]

ZscoreOutliers(t, thr) ==
    LET numeric_df == select_dtypes(t)
        zscore == [c \in 1..Len(numeric_df.columns) |->
                      ZscoreAbove(numeric_df.columns[c].data, thr)]
    IN  BooleanIndex(numeric_df, AnyAxis1(zscore, NumRows(numeric_df)))

-----------------------------------------------------------------------------
(* method == 'iqr'                                                         *)

RECURSIVE Insert(_, _)
Insert(s, v) ==
    IF s = <<>> THEN <<v>>
    ELSE IF v <= Head(s) THEN <<v>> \o s
    ELSE <<Head(s)>> \o Insert(Tail(s), v)

RECURSIVE Sorted(_)
Sorted(s) == IF s = <<>> THEN <<>> ELSE Insert(Sorted(Tail(s)), Head(s))

NotNaN(v) == v # NaN

\* Quantiles skip missing values.
dropna(d) == SelectSeq(d, NotNaN)

\* The quantiles asked for are Q1Num/QuantileDen = 0.25 and Q3Num/QuantileDen = 0.75.
QuantileDen == 4
Q1Num == 1
Q3Num == 3

\* The fence multiplier FenceNum/FenceDen = 1.5.
FenceNum == 3
FenceDen == 2

\* Quantile with interpolation='lower': the lower neighbour of the position.
QuantileLower(d, k) ==
    LET s == Sorted(dropna(d))
        pos == (Len(s) - 1) * k
        lo == (pos \div QuantileDen) + 1
    IN  QuantileDen * s[lo]

\* QuantileDen * Series.quantile(k / QuantileDen) of a column with at least one
\* value, interpolation='linear' (the default): the position (m-1) * q in the
\* sorted values, interpolated between its two neighbours.
Quantile(d, k) ==
    LET s == Sorted(dropna(d))
        pos == (Len(s) - 1) * k
        lo == (pos \div QuantileDen) + 1
        frac == pos % QuantileDen
    IN  IF frac = 0 THEN QuantileDen * s[lo]
        ELSE QuantileDen * s[lo] + frac * (s[lo + 1] - s[lo])

\* (numeric_df < (Q1 - 1.5 * IQR)) | (numeric_df > (Q3 + 1.5 * IQR)) for one
\* column d, cell by cell.  The quantile of a column without values is NaN, and
\* every comparison with NaN is False.
IqrOutside(d) ==
    LET Q1 == Quantile(d, Q1Num)
        Q3 == Quantile(d, Q3Num)
        IQR == Q3 - Q1
    IN  [i \in 1..Len(d) |->
            /\ d[i] # NaN
            /\ dropna(d) # <<>>
            /\ \/ QuantileDen * FenceDen * d[i] < FenceDen * Q1 - FenceNum * IQR
               \/ QuantileDen * FenceDen * d[i] > FenceDen * Q3 + FenceNum * IQR]

IqrOutliers(t) ==
    LET numeric_df == select_dtypes(t)
        outside == [c \in 1..Len(numeric_df.columns) |->
                       IqrOutside(numeric_df.columns[c].data)]
    IN  BooleanIndex(numeric_df, AnyAxis1(outside, NumRows(numeric_df)))

-----------------------------------------------------------------------------
(* OutlierDetector.detect_outliers                                         *)

Msg(text, arg) == [text |-> text, arg |-> arg]

InvalidMethodMsg == Msg("Invalid method. Use 'zscore' or 'iqr'. ", "")

\* MethodBranch comparing method.lower(): the method names matched in any case.
MethodBranchAnyCase(m) ==
    IF m \in {"zscore", "ZScore"} THEN "zscore"
    ELSE IF m \in {"iqr", "IQR"} THEN "iqr" ELSE "else"

\* The branch the if / elif / else chain takes: string equality, case-sensitive.
MethodBranch(m) ==
    IF m = "zscore" THEN "zscore" ELSE IF m = "iqr" THEN "iqr" ELSE "else"

\* The value returned and the text printed.
detect_outliers(t, m, thr) ==
    CASE MethodBranch(m) = "zscore" ->
            [outliers |-> ZscoreOutliers(t, thr), stdout |-> <<>>]
      [] MethodBranch(m) = "iqr" ->
            [outliers |-> IqrOutliers(t), stdout |-> <<>>]
      [] OTHER ->
            [outliers |-> EmptyDataFrame, stdout |-> <<InvalidMethodMsg>>]

-----------------------------------------------------------------------------
(* FeatureAnalyzer.feature_importance                                      *)

ColumnNames(t) == {t.columns[c].name : c \in 1..Len(t.columns)}

ColumnOf(t, name) == CHOOSE c \in 1..Len(t.columns) : t.columns[c].name = name

\* frame.drop(columns=[name], errors='ignore')
DropColumn(t, name) ==
    LET Keep(col) == col.name # name
    IN  [t EXCEPT !.columns = SelectSeq(t.columns, Keep)]

\* DataFrame.empty: any axis of length 0.
IsEmpty(t) == Len(t.columns) = 0 \/ NumRows(t) = 0

\* The indicator columns of one object column: one per distinct value.
RECURSIVE Indicators(_, _)
Indicators(col, values) ==
    IF values = {} THEN <<>>
    ELSE LET v == CHOOSE w \in values : TRUE
         IN  <<[name |-> <<col.name, v>>, dtype |-> "number",
                data |-> [i \in 1..Len(col.data) |-> IF col.data[i] = v THEN 1 ELSE 0]]>>
             \o Indicators(col, values \ {v})

RECURSIVE AllIndicators(_)
AllIndicators(cols) ==
    IF cols = <<>> THEN <<>>
    ELSE IF IsNumber(Head(cols)) THEN AllIndicators(Tail(cols))
    ELSE Indicators(Head(cols), Range(Head(cols).data)) \o AllIndicators(Tail(cols))

\* pd.get_dummies(X): the numeric columns are kept, every object column is
\* replaced by its indicator columns, which follow the kept ones.
get_dummies(t) ==
    [t EXCEPT !.columns = SelectSeq(t.columns, IsNumber) \o AllIndicators(t.columns)]

\* test_size = TestSizeNum / TestSizeDen = 0.2
TestSizeNum == 1
TestSizeDen == 5

\* train_test_split's sizes: n_test = ceil(test_size * n), n_train = n - n_test.
NTest(n) == (n * TestSizeNum + TestSizeDen - 1) \div TestSizeDen
NTrain(n) == n - NTest(n)

\* The row sets train_test_split can hand to the fit: the rows are shuffled by a
\* generator seeded with random_state, so which rows they are is fixed by the
\* seed and the row count; every set of the right size is allowed for here.
TrainSets(n) == {T \in SUBSET (1..n) : Cardinality(T) = NTrain(n)}

NaNIn(col, T) == \E i \in T : col.data[i] = NaN

\* train_test_split raises ValueError when the training set would be empty.
SplitRaises(X) == NTrain(NumRows(X)) = 0

\* model.fit raises (the except clause catches it) when y_train holds a NaN and,
\* with the scikit-learn versions whose forests reject missing values, when
\* X_train holds one.
FitCanRaise(X, y) ==
    /\ ~SplitRaises(X)
    /\ \E T \in TrainSets(NumRows(X)) :
          \/ NaNIn(y, T)
          \/ \E c \in 1..Len(X.columns) : NaNIn(X.columns[c], T)

\* The fit completes when the training set is not empty and y_train holds no NaN.
CanFit(X, y) ==
    /\ ~SplitRaises(X)
    /\ \E T \in TrainSets(NumRows(X)) : ~NaNIn(y, T)

\* The largest importance score of the model, in units of 1 / (sum of scores).
MaxImportance == 2

\* model.feature_importances_: one non-negative score per column of X.  The
\* random forest is not modelled: any scores may come out.
Importances(X) == [1..Len(X.columns) -> 0..MaxImportance]

\* pd.DataFrame({'feature': X.columns, 'importance': model.feature_importances_})
ImportanceFrame(X, imp) ==
    [k \in 1..Len(X.columns) |-> [feature |-> X.columns[k].name, importance |-> imp[k]]]

Descending(rows) ==
    \A k \in 1..(Len(rows) - 1) : rows[k].importance >= rows[k + 1].importance

Ascending(rows) ==
    \A k \in 1..(Len(rows) - 1) : rows[k].importance <= rows[k + 1].importance

\* sort_values with ascending=True, the default.
sort_values_ascending(frame) ==
    {[k \in 1..Len(frame) |-> frame[p[k]]] : p \in
        {q \in Permutations(1..Len(frame)) :
            Ascending([k \in 1..Len(frame) |-> frame[q[k]]])}}

\* frame.sort_values('importance', ascending=False): the rows reordered so that
\* the scores do not increase.  The default kind is 'quicksort', which is not a
\* stable sort: rows with equal scores may come out in any order.
sort_values(frame) ==
    {[k \in 1..Len(frame) |-> frame[p[k]]] : p \in
        {q \in Permutations(1..Len(frame)) :
            Descending([k \in 1..Len(frame) |-> frame[q[k]]])}}

MissingMsg(name) == Msg("Target Column '{target_column}' not founded in the dataset.", name)
NonNumericMsg(name) == Msg("Error: Target Column '{target_column}' must be numeric.", name)
NoFeaturesMsg == Msg("Error: No numberic features founded for analysis", "")
ErrorMsg == Msg("An error occured during feature importance analysis: {str(e)}", "")

NoRanking == <<>>

\* Guards with the emptiness of X tested before the target's dtype.
GuardsFeaturesFirst(t, name) ==
    IF name \notin ColumnNames(t) THEN "missing"
    ELSE IF IsEmpty(DropColumn(select_dtypes(t), name)) THEN "nofeatures"
    ELSE IF ~IsNumber(t.columns[ColumnOf(t, name)]) THEN "nonnumeric"
    ELSE "try"

\* The guard clauses: which return statement ends the call, "try" when none does.
Guards(t, name) ==
    IF name \notin ColumnNames(t) THEN "missing"
    ELSE IF ~IsNumber(t.columns[ColumnOf(t, name)]) THEN "nonnumeric"
    ELSE IF IsEmpty(DropColumn(select_dtypes(t), name)) THEN "nofeatures"
    ELSE "try"

\* X after line 24 and y after line 25.
FeatureFrame(t, name) == DropColumn(select_dtypes(t), name)
TargetColumn(t, name) == t.columns[ColumnOf(t, name)]

\* The outcomes of feature_importance(name) on t: where it ended, the library
\* calls completed, the ranking built and the text printed.  The bar chart of
\* ranking.head(10) is drawn and nothing is returned.
feature_importance(t, name) ==
    CASE Guards(t, name) = "missing" ->
            {[exit |-> "missing", steps |-> <<>>, importances |-> NoRanking,
              ranking |-> NoRanking,
              stdout |-> <<MissingMsg(name)>>]}
      [] Guards(t, name) = "nonnumeric" ->
            {[exit |-> "nonnumeric", steps |-> <<>>, importances |-> NoRanking,
              ranking |-> NoRanking,
              stdout |-> <<NonNumericMsg(name)>>]}
      [] Guards(t, name) = "nofeatures" ->
            {[exit |-> "nofeatures", steps |-> <<>>, importances |-> NoRanking,
              ranking |-> NoRanking,
              stdout |-> <<NoFeaturesMsg>>]}
      [] OTHER ->
            LET X == get_dummies(FeatureFrame(t, name))
                y == TargetColumn(t, name)
            IN  {[exit |-> "except", steps |-> <<"get_dummies">>, importances |-> NoRanking,
                  ranking |-> NoRanking, stdout |-> <<ErrorMsg>>] :
                    e \in {b \in {TRUE} : SplitRaises(X)}}
                \cup
                {[exit |-> "except", steps |-> <<"get_dummies", "train_test_split">>,
                  importances |-> NoRanking, ranking |-> NoRanking, stdout |-> <<ErrorMsg>>] :
                    e \in {b \in {TRUE} : FitCanRaise(X, y)}}
                \cup
                (IF CanFit(X, y)
                 THEN UNION {{[exit |-> "done",
                               steps |-> <<"get_dummies", "train_test_split", "fit",
                                           "sort_values", "plot">>,
                               importances |-> ImportanceFrame(X, imp),
                               ranking |-> r, stdout |-> <<>>] :
                                 r \in sort_values(ImportanceFrame(X, imp))} :
                             imp \in Importances(X)}
                 ELSE {})

\* random_state=42, passed to train_test_split and to RandomForestRegressor.
random_state == 42

\* The states the global generator is told apart by.
GlobalStates == 2

\* check_random_state(None): the draws come from numpy's global generator and
\* advance it.
GlobalGenerator(seed, global) ==
    [state |-> global, global |-> (global + 1) % GlobalStates]

\* sklearn's check_random_state(seed) for an int seed: a new generator in the
\* state the seed fixes; the global generator is not touched.  The result is
\* the state the draws start from and the global generator's state after them.
check_random_state(seed, global) == [state |-> seed, global |-> global]

\* The outcomes of feature_importance(name) on t when the split and the forest
\* draw from a generator in state g, given what earlier calls gave.  The
\* shuffle, the bootstrap samples, the fitted scores and the passes of the sort
\* are functions of their inputs and of the generator's state: which function
\* is not modelled, so the first call from a state may end in any way
\* feature_importance allows, and a later call on the same frame with the same
\* target from the same state ends as the first did.
seeded_feature_importance(t, name, g, earlier) ==
    LET known == {f \in earlier : f.state = g /\ f.target = name}
    IN  IF known = {} THEN feature_importance(t, name)
        ELSE {f.result : f \in known}

\* self.df with only the feature columns left, as drop(..., inplace=True) on
\* self.df after a column selection assigned back would leave it.
FeaturesLeftInSelfDf(t, name) == FeatureFrame(t, name)

\* self.df when feature_importance returns.  Line 24 builds X from
\* self.df[numeric_columns], a new frame, and drops the target from that frame
\* without inplace; get_dummies, train_test_split and fit receive X and y, and
\* no line assigns to self.df or writes one of its cells.
feature_importance_self_df(t, name) == t

\* self.df when detect_outliers returns.  Line 10 reads it through
\* select_dtypes, which builds a new frame; lines 15 and 20 index that new
\* frame, and no line assigns to self.df or writes one of its cells.
detect_outliers_self_df(t, m, thr) == t

-----------------------------------------------------------------------------
(* DataCleaner.drop_rows                                                   *)

\* DataCleaner(df): self.df is a copy of df and self.changes_log is empty.
DataCleaner(t) == [df |-> t, changes_log |-> <<>>]

\* A Python value passed as index_range: a tuple or a list of items, each an
\* int or a value of another type.
PyInt(v) == [type |-> "int", value |-> v]
PyFloat(v) == [type |-> "float", value |-> v]
PyTuple(items) == [type |-> "tuple", items |-> items]
PyList(items) == [type |-> "list", items |-> items]

\* isinstance(index_range, tuple) and len(index_range) == 2 and
\* all(isinstance(i, int) for i in index_range)
IsTupleOfTwoInts(arg) ==
    /\ arg.type = "tuple"
    /\ Len(arg.items) = 2
    /\ \A i \in 1..Len(arg.items) : arg.items[i].type = "int"

DroppedRowsMsg(start_idx, end_idx) ==
    [text |-> "Dropped rows from index {start_idx} to {end_idx}.",
     start |-> start_idx, end |-> end_idx]

\* frame.drop(labels): every row whose index label is one of labels is removed;
\* the other rows keep their labels, cells and order.
drop(t, labels) ==
    BooleanIndex(t, [i \in 1..NumRows(t) |-> t.index[i] \notin labels])

\* frame.index[start:stop]: the labels at positions start .. stop - 1.
IndexSlice(t, start, stop) == {t.index[i] : i \in (start + 1)..stop}

\* drop_rows(index_range) on a cleaner whose self.df is t and whose
\* changes_log is log: the two fields after the call and the exception raised.
drop_rows(t, log, arg) ==
    IF ~IsTupleOfTwoInts(arg)
    THEN [df |-> t, changes_log |-> log, raised |-> "TypeError"]
    ELSE LET start_idx == arg.items[1].value
             end_idx == arg.items[2].value
             num_rows == NumRows(t)
         IN  IF 0 <= start_idx /\ start_idx <= end_idx /\ end_idx < num_rows
             THEN LET indices_to_drop == IndexSlice(t, start_idx, end_idx + 1)
                  IN  [df |-> drop(t, indices_to_drop),
                       changes_log |-> Append(log, DroppedRowsMsg(start_idx, end_idx)),
                       raised |-> ""]
             ELSE [df |-> t, changes_log |-> log, raised |-> "ValueError"]

-----------------------------------------------------------------------------
(* The DataFrames and arguments the calls are checked on                   *)

NumCells == (0..MaxVal) \cup {NaN}

\* The cells a column of n rows is drawn from, by the shape its schema names:
\*   "any"    every combination of numbers and missing values,
\*   "spike"  zeros with at most one cell set to 1,
\*   "zeros"  zeros,
\*   "gap"    zeros with at most one missing value,
\*   "text"   the strings "u", "v", "u", ...
\*   "label"  either that, or "u" in every row.
ColumnData(shape, n) ==
    CASE shape = "any" -> [1..n -> NumCells]
      [] shape = "spike" ->
            {[i \in 1..n |-> IF i = k THEN 1 ELSE 0] : k \in 0..n}
      [] shape = "zeros" -> {[i \in 1..n |-> 0]}
      [] shape = "gap" ->
            {[i \in 1..n |-> IF i = k THEN NaN ELSE 0] : k \in 0..n}
      [] shape = "text" -> {[i \in 1..n |-> IF i % 2 = 1 THEN "u" ELSE "v"]}
      [] shape = "label" ->
            {[i \in 1..n |-> "u"], [i \in 1..n |-> IF i % 2 = 1 THEN "u" ELSE "v"]}

\* The default index of a loaded DataFrame: 0, 1, ..., n-1.
RangeIndex(n) == [i \in 1..n |-> i - 1]

RECURSIVE ColumnsOver(_, _)
ColumnsOver(schema, n) ==
    IF schema = <<>> THEN {<<>>}
    ELSE {<<[name |-> Head(schema).name, dtype |-> Head(schema).dtype, data |-> d]>> \o rest :
            d \in ColumnData(Head(schema).shape, n),
            rest \in ColumnsOver(Tail(schema), n)}

Frames(schema) ==
    UNION {{[index |-> RangeIndex(n), columns |-> cols] : cols \in ColumnsOver(schema, n)} :
            n \in 0..MaxRows}

num(name, shape) == [name |-> name, dtype |-> "number", shape |-> shape]
obj(name, shape) == [name |-> name, dtype |-> "object", shape |-> shape]

OutlierSchemas ==
    {<<>>, <<obj("s", "text")>>, <<num("x", "any")>>,
     <<obj("s", "text"), num("x", "any")>>,
     <<num("x", "any"), num("y", "spike")>>}

RankSchemas ==
    {<<>>, <<obj("s", "label")>>, <<num("a", "gap")>>,
     <<num("a", "gap"), obj("s", "label")>>,
     <<num("a", "gap"), num("b", "gap")>>,
     <<num("a", "zeros"), num("b", "zeros"), num("c", "gap")>>,
     <<obj("s", "text"), num("a", "zeros"), num("b", "zeros"), obj("k", "label"),
       num("c", "zeros")>>}

SeededSchemas ==
    {<<num("a", "gap"), num("b", "gap")>>,
     <<num("a", "zeros"), num("b", "zeros"), num("c", "zeros")>>}

SeededTargets == {"a", "b", "q"}

\* The largest row count of a frame handed to a DataCleaner.
MaxCleanRows == 3

\* Row labels of n rows: the default 0 .. n-1, every second number, the same
\* label on every row, and two labels by turns.
IndexLabels(n) ==
    {RangeIndex(n), [i \in 1..n |-> 2 * i], [i \in 1..n |-> 0], [i \in 1..n |-> i % 2]}

\* Frames with one numeric column whose cells number the rows.
CleanerFrames ==
    UNION {{[index |-> labels,
             columns |-> <<[name |-> "x", dtype |-> "number", data |-> [i \in 1..n |-> i]]>>] :
                labels \in IndexLabels(n)} : n \in 0..MaxCleanRows}

\* The index_range arguments drop_rows is called with.
DropArguments ==
    {PyTuple(<<PyInt(start), PyInt(end)>>) : start, end \in (0 - 1)..MaxCleanRows}
    \cup {PyList(<<PyInt(0), PyInt(0)>>), PyTuple(<<PyInt(0)>>), PyTuple(<<PyInt(0), PyInt(0), PyInt(0)>>),
          PyTuple(<<PyInt(0), PyFloat(0)>>)}

Const(name, v, n) == [name |-> name, dtype |-> "number", data |-> [i \in 1..n |-> v]]

\* The scenario of spec section 8: x = [1, 1, 1, 1, 100] and four uniform columns.
ScenarioFrame ==
    [index |-> RangeIndex(5),
     columns |-> <<Const("a", 7, 5),
                   [name |-> "x", dtype |-> "number", data |-> <<1, 1, 1, 1, 100>>],
                   Const("b", 0, 5), Const("c", 2, 5), Const("d", 3, 5)>>]

Rat(p, q) == [num |-> p, den |-> q]

\* 3.0 is the default threshold.
Thresholds == {Rat(1, 2), Rat(1, 1), Rat(3, 1)}

\* The (method, threshold) arguments detect_outliers is called with.
Calls ==
    ({"zscore"} \X Thresholds)
    \cup ({"iqr"} \X {Rat(1, 1), Rat(3, 1)})
    \cup {<<"IQR", Rat(3, 1)>>, <<"ZScore", Rat(1, 2)>>}

\* Thresholds in steps of a quarter around the largest z-scores of columns of
\* two to five rows, and the default 3.0.
ZscoreThresholds ==
    {Rat(3, 4), Rat(1, 1), Rat(5, 4), Rat(3, 2), Rat(7, 4), Rat(2, 1), Rat(3, 1)}

\* The target_column arguments feature_importance is called with; no frame has
\* a column "q".
Targets == {"a", "b", "c", "s", "q"}

-----------------------------------------------------------------------------
(* The state machine                                                       *)

NoThreshold == Rat(0, 1)

Idle ==
    /\ op = "none"
    /\ method = ""
    /\ threshold = NoThreshold
    /\ outliers = EmptyDataFrame
    /\ target = ""
    /\ exit = ""
    /\ steps = <<>>
    /\ importances = NoRanking
    /\ ranking = NoRanking
    /\ stdout = <<>>

NoArgument == [type |-> "none", items |-> <<>>]

\* No DataCleaner has been constructed.
NoCleaner ==
    /\ clean = EmptyDataFrame
    /\ changes_log = <<>>
    /\ index_range = NoArgument
    /\ raised = ""

\* Nothing has drawn from the global generator and nothing has been fitted.
NoFit ==
    /\ np_random = 0
    /\ fitted = {}
    /\ recalled = FALSE

InitOutlier ==
    /\ \/ \E schema \in OutlierSchemas : df \in Frames(schema)
       \/ df = ScenarioFrame
    /\ Idle
    /\ NoCleaner
    /\ NoFit

InitRank ==
    /\ \E schema \in RankSchemas : df \in Frames(schema)
    /\ Idle
    /\ NoCleaner
    /\ NoFit

\* Frames with one or two features for each target, with and without NaN.
InitSeeded ==
    /\ \E schema \in SeededSchemas : df \in Frames(schema)
    /\ Idle
    /\ NoCleaner
    /\ NoFit

\* Frames of one or two numeric columns, and the scenario's frame.
InitZscore ==
    /\ \/ \E schema \in {<<num("x", "any")>>, <<num("x", "spike"), num("y", "spike")>>} :
             df \in Frames(schema)
       \/ df = ScenarioFrame
    /\ Idle
    /\ NoCleaner
    /\ NoFit

\* A DataCleaner constructed on a frame with any of the row labellings.
InitCleaner ==
    /\ df \in CleanerFrames
    /\ clean = DataCleaner(df).df
    /\ changes_log = DataCleaner(df).changes_log
    /\ index_range = NoArgument
    /\ raised = ""
    /\ Idle
    /\ NoFit

\* Frames for both analysers: those of the feature analyser and frames with a
\* text column and arbitrary numeric cells.
InitAnalysers ==
    /\ \E schema \in RankSchemas \cup {<<obj("s", "text"), num("x", "any")>>} :
          df \in Frames(schema)
    /\ Idle
    /\ NoCleaner
    /\ NoFit

Init == InitOutlier \/ InitRank

\* OutlierDetector(df).detect_outliers(method=m, threshold=thr)
DetectOutliers(m, thr) ==
    LET r == detect_outliers(df, m, thr)
    IN  /\ op' = "detect_outliers"
        /\ method' = m
        /\ threshold' = thr
        /\ outliers' = r.outliers
        /\ stdout' = r.stdout
        /\ target' = ""
        /\ exit' = ""
        /\ steps' = <<>>
        /\ importances' = NoRanking
        /\ ranking' = NoRanking
        /\ df' = detect_outliers_self_df(df, m, thr)
        /\ UNCHANGED <<np_random, fitted, recalled, clean, changes_log, index_range, raised>>

\* FeatureAnalyzer(df).feature_importance(name)
FeatureImportance(name) ==
    \E r \in feature_importance(df, name) :
        /\ op' = "feature_importance"
        /\ target' = name
        /\ exit' = r.exit
        /\ steps' = r.steps
        /\ importances' = r.importances
        /\ ranking' = r.ranking
        /\ stdout' = r.stdout
        /\ method' = ""
        /\ threshold' = NoThreshold
        /\ outliers' = EmptyDataFrame
        /\ df' = feature_importance_self_df(df, name)
        /\ UNCHANGED <<np_random, fitted, recalled, clean, changes_log, index_range, raised>>

\* FeatureAnalyzer(df).feature_importance(name), with the generators the call
\* seeds and a record of what each call gave.
SeededFeatureImportance(name) ==
    LET g == check_random_state(random_state, np_random)
    IN  \E r \in seeded_feature_importance(df, name, g.state, fitted) :
            /\ op' = "feature_importance"
            /\ target' = name
            /\ exit' = r.exit
            /\ steps' = r.steps
            /\ importances' = r.importances
            /\ ranking' = r.ranking
            /\ stdout' = r.stdout
            /\ method' = ""
            /\ threshold' = NoThreshold
            /\ outliers' = EmptyDataFrame
            /\ df' = feature_importance_self_df(df, name)
            /\ np_random' = g.global
            /\ fitted' = fitted \cup {[state |-> g.state, target |-> name, result |-> r]}
            /\ recalled' = (\E f \in fitted : f.target = name)
            /\ UNCHANGED <<clean, changes_log, index_range, raised>>

\* DataCleaner.drop_rows(arg)
DropRows(arg) ==
    LET r == drop_rows(clean, changes_log, arg)
    IN  /\ index_range' = arg
        /\ clean' = r.df
        /\ changes_log' = r.changes_log
        /\ raised' = r.raised
        /\ UNCHANGED <<df, op, method, threshold, outliers, target, exit, steps,
                       importances, ranking, stdout, np_random, fitted, recalled>>

NextCleaner == \E arg \in DropArguments : DropRows(arg)

NextOutlier == \E call \in Calls : DetectOutliers(call[1], call[2])

NextRank == \E name \in Targets : FeatureImportance(name)

Next == NextOutlier \/ NextRank

\* The outlier detector on frames with arbitrary numeric cells.
SpecOutlier == InitOutlier /\ [][NextOutlier]_vars

\* The feature analyser on frames of every shape of schema.
SpecRank == InitRank /\ [][NextRank]_vars

\* Both analysers on one frame.
Spec == Init /\ [][Next]_vars

NextSeeded == \E name \in SeededTargets : SeededFeatureImportance(name)

\* OutlierDetector(df).detect_outliers() with its default arguments.
DetectDefault == DetectOutliers("zscore", Rat(3, 1))

\* The feature analyser called again and again on one frame, with calls of the
\* outlier detector in between.
SpecSeeded == InitSeeded /\ [][NextSeeded \/ DetectDefault]_vars

NextZscore == \E thr \in ZscoreThresholds : DetectOutliers("zscore", thr)

\* The outlier detector's z-score method over a finer range of thresholds.
SpecZscore == InitZscore /\ [][NextZscore]_vars

\* drop_rows called again and again on one DataCleaner.
SpecCleaner == InitCleaner /\ [][NextCleaner]_vars

\* Both analysers, called in any order, on the frames of InitAnalysers.
SpecAnalysers == InitAnalysers /\ [][Next]_vars

-----------------------------------------------------------------------------
(* Properties of detect_outliers                                           *)

Detected(m) == op = "detect_outliers" /\ method = m

\* The numeric columns of the frame the call was made on, in source order.
NumericColumns == SelectSeq(df.columns, IsNumber)

\* Row i of the frame (by its index label) is a row of the result.
Returned(i) == df.index[i] \in Range(outliers.index)

SumOfSquares(d) == SeqSum([j \in 1..Len(d) |-> d[j] * d[j]])

\* n^2 times the population variance of d: n * sum(d^2) - sum(d)^2.
ScaledVariance(d) == Len(d) * SumOfSquares(d) - Square(SeqSum(d))

\* |d[i] - mean| / population standard deviation > thr, for thr > 0.  The
\* statistics of a column with a missing cell are undefined, and so is the
\* quotient of a column without variance: neither exceeds anything.
PopulationZAbove(d, i, thr) ==
    /\ \A j \in DOMAIN d : d[j] # NaN
    /\ ScaledVariance(d) > 0
    /\ Square(Len(d) * d[i] - SeqSum(d)) * Square(thr.den)
         > Square(thr.num) * ScaledVariance(d)

IsConstant(d) == \A i, j \in DOMAIN d : d[i] = d[j]

\* C1: with at least one numeric column and a positive threshold t, the zscore
\* method returns a row if and only if one of its numeric cells lies more than
\* t population standard deviations from its column's mean; a column without
\* variance never causes a row to be returned.
C1_ZscoreIff ==
    (Detected("zscore") /\ Len(NumericColumns) >= 1 /\ threshold.num > 0) =>
        /\ \A i \in 1..NumRows(df) :
              Returned(i) <=>
                 \E c \in 1..Len(NumericColumns) :
                    /\ ~IsConstant(NumericColumns[c].data)
                    /\ PopulationZAbove(NumericColumns[c].data, i, threshold)
        /\ (\A c \in 1..Len(NumericColumns) : IsConstant(NumericColumns[c].data))
              => outliers.index = <<>>

\* A zscore call that returned some rows and not others, on a frame with a
\* constant numeric column of at least two rows.
C1_Witness ==
    /\ Detected("zscore")
    /\ threshold.num > 0
    /\ \E i, j \in 1..NumRows(df) : Returned(i) /\ ~Returned(j)
    /\ \E c \in 1..Len(NumericColumns) : IsConstant(NumericColumns[c].data)

\* The number of values of d below v, and at or below v.
CountBelow(d, v) == Cardinality({j \in DOMAIN d : d[j] # NaN /\ d[j] < v})
CountAtMost(d, v) == Cardinality({j \in DOMAIN d : d[j] # NaN /\ d[j] <= v})

\* The k-th smallest value of d (k from 1), missing cells left out.
OrderStatistic(d, k) ==
    CHOOSE v \in Range(d) \ {NaN} : CountBelow(d, v) < k /\ k <= CountAtMost(d, v)

NumValues(d) == Cardinality({j \in DOMAIN d : d[j] # NaN})

\* 4 times the (a/4)-quantile of d with linear interpolation: with
\* h = (m - 1) * a / 4 it is x[floor h] + (h - floor h) * (x[ceil h] - x[floor h]).
Percentile4(d, a) ==
    LET h4 == (NumValues(d) - 1) * a
        lower == OrderStatistic(d, (h4 \div 4) + 1)
        upper == OrderStatistic(d, ((h4 + 3) \div 4) + 1)
    IN  4 * lower + (h4 - 4 * (h4 \div 4)) * (upper - lower)

\* d[i] < Q1 - 1.5 * (Q3 - Q1) or d[i] > Q3 + 1.5 * (Q3 - Q1), multiplied by 8.
OutsideFences(d, i) ==
    /\ d[i] # NaN
    /\ \/ 8 * d[i] < 5 * Percentile4(d, 1) - 3 * Percentile4(d, 3)
       \/ 8 * d[i] > 5 * Percentile4(d, 3) - 3 * Percentile4(d, 1)

\* C2: the iqr method returns a row if and only if one of its numeric cells is
\* strictly below Q1 - 1.5 * IQR or strictly above Q3 + 1.5 * IQR of its column
\* (percentiles with linear interpolation), whatever the threshold passed.
C2_IqrIff ==
    Detected("iqr") =>
        \A i \in 1..NumRows(df) :
            Returned(i) <=>
                \E c \in 1..Len(NumericColumns) : OutsideFences(NumericColumns[c].data, i)

\* An iqr call that returned some rows and not others, where a quartile falls
\* between two different values.
C2_Witness ==
    /\ Detected("iqr")
    /\ \E i, j \in 1..NumRows(df) : Returned(i) /\ ~Returned(j)
    /\ \E c \in 1..Len(NumericColumns) :
          /\ ~HasNaN(NumericColumns[c].data)
          /\ Percentile4(NumericColumns[c].data, 3) % 4 # 0

OnScenario(m) == Detected(m) /\ df = ScenarioFrame

\* The index label of the scenario's row whose x is 100.
ScenarioOutlier == <<4>>

\* C3 as stated: on the scenario frame zscore with threshold 3 returns exactly
\* the row whose x is 100, and iqr returns that row too.
C3_AsStated ==
    /\ (OnScenario("zscore") /\ threshold = Rat(3, 1)) => outliers.index = ScenarioOutlier
    /\ OnScenario("iqr") => outliers.index = ScenarioOutlier

\* C3, amended: on the scenario frame the z-score of the row whose x is 100 is
\* exactly 2, so zscore returns exactly that row for a threshold below 2 and no
\* row for threshold 3; iqr returns exactly that row.
C3_ScenarioZscoreTwo ==
    /\ OnScenario("zscore") =>
          outliers.index = IF threshold.num < 2 * threshold.den
                           THEN ScenarioOutlier ELSE <<>>
    /\ OnScenario("iqr") => outliers.index = ScenarioOutlier

\* The zscore call with threshold 3 on the scenario frame has returned no row.
C3_Witness ==
    /\ OnScenario("zscore")
    /\ threshold = Rat(3, 1)
    /\ outliers.index = <<>>
    /\ Len(outliers.columns) = 5

\* The position in the frame of the k-th row of the result, by its label.
SourceRow(k) == CHOOSE i \in 1..NumRows(df) : df.index[i] = outliers.index[k]

\* C4: the result of the zscore and iqr methods is a sub-table of the numeric
\* subview: its columns are the frame's numeric columns in source order, its
\* rows are rows of the frame with their numeric cells unchanged, in the
\* frame's order and none twice; without numeric columns it has no rows.
C4_SubTable ==
    (Detected("zscore") \/ Detected("iqr")) =>
        /\ Len(outliers.columns) = Len(NumericColumns)
        /\ \A c \in 1..Len(NumericColumns) :
              /\ outliers.columns[c].name = NumericColumns[c].name
              /\ outliers.columns[c].dtype = "number"
              /\ Len(outliers.columns[c].data) = Len(outliers.index)
        /\ Len(outliers.index) <= NumRows(df)
        /\ \A k \in 1..Len(outliers.index) :
              /\ outliers.index[k] \in Range(df.index)
              /\ \A c \in 1..Len(NumericColumns) :
                    outliers.columns[c].data[k] = NumericColumns[c].data[SourceRow(k)]
        /\ \A k, l \in 1..Len(outliers.index) : k < l => SourceRow(k) < SourceRow(l)
        /\ Len(NumericColumns) = 0 => outliers.index = <<>>

\* A call on a frame with a text column before its numeric column has returned
\* rows that do not start at the frame's first row.
C4_Witness ==
    /\ Detected("iqr") \/ Detected("zscore")
    /\ Len(df.columns) > Len(NumericColumns)
    /\ Len(NumericColumns) >= 1
    /\ ~IsNumber(df.columns[1])
    /\ outliers.index # <<>>
    /\ ~Returned(1)

\* C5 as stated: on a non-empty frame, with a positive threshold, the zscore
\* and iqr methods never return every row.
C5_AsStated ==
    ((Detected("zscore") \/ Detected("iqr")) /\ NumRows(df) > 0 /\ threshold.num > 0) =>
        \E i \in 1..NumRows(df) : ~Returned(i)

\* C5, amended: the result never has more rows than the frame, and on a
\* non-empty frame with at most one numeric column a row is left out by iqr and
\* by zscore with a threshold of at least 1.
C5_StrictForOneColumn ==
    (Detected("zscore") \/ Detected("iqr")) =>
        /\ Cardinality(Range(outliers.index)) <= NumRows(df)
        /\ (/\ NumRows(df) > 0
            /\ Len(NumericColumns) <= 1
            /\ Detected("iqr") \/ threshold.num >= threshold.den)
              => \E i \in 1..NumRows(df) : ~Returned(i)

\* A zscore call with threshold 1 on a frame with a single numeric column has
\* returned a row.
C5_Witness ==
    /\ Detected("zscore")
    /\ threshold = Rat(1, 1)
    /\ Len(NumericColumns) = 1
    /\ \E i \in 1..NumRows(df) : Returned(i)

\* C6: a method other than exactly 'zscore' or 'iqr' prints the diagnostic and
\* returns the empty DataFrame, whatever the frame and the threshold.
C6_UnknownMethod ==
    (op = "detect_outliers" /\ method \notin {"zscore", "iqr"}) =>
        /\ outliers.index = <<>>
        /\ outliers.columns = <<>>
        /\ Len(stdout) = 1
        /\ stdout[1].text = "Invalid method. Use 'zscore' or 'iqr'. "

\* The call with method 'IQR' on a frame that 'iqr' finds outliers in.
C6_Witness ==
    /\ Detected("IQR")
    /\ stdout # <<>>
    /\ \E i \in 1..NumRows(df), c \in 1..Len(NumericColumns) :
          OutsideFences(NumericColumns[c].data, i)

-----------------------------------------------------------------------------
(* Properties of feature_importance                                        *)

Ranked == op = "feature_importance"

TargetExists == \E c \in 1..Len(df.columns) : df.columns[c].name = target

TargetIsNumeric ==
    \E c \in 1..Len(df.columns) :
        df.columns[c].name = target /\ df.columns[c].dtype = "number"

\* The numeric columns other than the target.
NumericFeatures ==
    {c \in 1..Len(df.columns) :
        df.columns[c].dtype = "number" /\ df.columns[c].name # target}

GuardExits == {"missing", "nonnumeric", "nofeatures"}

\* C7: the preconditions are checked in the order target exists, target is
\* numeric, a numeric feature remains; the first one violated is reported with
\* its own message, and the call then ends before the encoding, the split and
\* the fit, with no ranking.
C7_GuardOrder ==
    Ranked =>
        /\ ~TargetExists =>
              exit = "missing" /\ stdout = <<MissingMsg(target)>>
        /\ (TargetExists /\ ~TargetIsNumeric) =>
              exit = "nonnumeric" /\ stdout = <<NonNumericMsg(target)>>
        /\ (TargetIsNumeric /\ NumericFeatures = {}) =>
              exit = "nofeatures" /\ stdout = <<NoFeaturesMsg>>
        /\ exit \in GuardExits =>
              steps = <<>> /\ importances = NoRanking /\ ranking = NoRanking
        /\ Cardinality({MissingMsg(target).text, NonNumericMsg(target).text,
                        NoFeaturesMsg.text}) = 3

\* A call whose target is a text column of a frame without numeric columns: the
\* second and the third precondition are both violated.
C7_Witness ==
    /\ Ranked
    /\ TargetExists
    /\ ~TargetIsNumeric
    /\ NumericFeatures = {}
    /\ NumRows(df) > 0
    /\ exit = "nonnumeric"

\* C8: the no-features failure is reported when the target is valid and no
\* numeric column other than it remains, and is not reported for a frame with a
\* numeric column other than the target, whatever its row count.
C8_NoFeaturesIff ==
    Ranked =>
        /\ (TargetIsNumeric /\ NumericFeatures = {}) => exit = "nofeatures"
        /\ NumericFeatures # {} => exit # "nofeatures"

\* The number of distinct values of the text columns, summed.
IndicatorCount ==
    SeqSum([c \in 1..Len(df.columns) |->
               IF df.columns[c].dtype = "number" THEN 0
               ELSE Cardinality(Range(df.columns[c].data))])

\* C9: the ranking has one entry per numeric column other than the target and
\* one per distinct value of every text column, and none for the target.
C9_RankingLength ==
    (Ranked /\ exit = "done") =>
        /\ Len(ranking) = (Len(NumericColumns) - 1) + IndicatorCount
        /\ \A k \in 1..Len(ranking) : ranking[k].feature # target

\* The position of the k-th entry of the ranking in the unsorted frame.
ColumnRank(k) ==
    CHOOSE j \in 1..Len(importances) : importances[j].feature = ranking[k].feature

IsPermutationOfImportances ==
    /\ Len(ranking) = Len(importances)
    /\ \A j \in 1..Len(importances) :
          Cardinality({k \in 1..Len(ranking) : ranking[k] = importances[j]}) = 1

NonIncreasing ==
    \A k, l \in 1..Len(ranking) : k < l => ranking[k].importance >= ranking[l].importance

\* C10 as stated: the ranking is a permutation of the (feature, importance)
\* pairs in non-increasing order of importance, and features of equal
\* importance keep the order of their columns.
C10_AsStated ==
    (Ranked /\ exit = "done") =>
        /\ IsPermutationOfImportances
        /\ NonIncreasing
        /\ \A k, l \in 1..Len(ranking) :
              (k < l /\ ranking[k].importance = ranking[l].importance)
                  => ColumnRank(k) < ColumnRank(l)

\* C10, amended: the ranking is a permutation of the (feature, importance)
\* pairs in non-increasing order of importance; the order of features of equal
\* importance is not determined.
C10_SortedPermutation ==
    (Ranked /\ exit = "done") => (IsPermutationOfImportances /\ NonIncreasing)

\* A ranking whose first entry is not the first column: the sort moved it.
C10_Witness ==
    /\ Ranked
    /\ exit = "done"
    /\ Len(ranking) >= 2
    /\ importances[1].importance < importances[2].importance
    /\ ranking[1] = importances[2]

-----------------------------------------------------------------------------
(* Properties of both analysers                                            *)

\* C11: no call of detect_outliers or feature_importance changes the table the
\* analyser was given: across every step, whichever way the call ends, the
\* frame's index, its columns, their order and every cell are what they were.
C11_InputUntouched == [][df' = df]_vars

\* feature_importance has built a ranking from a frame of several rows that
\* has a text column among its columns.
C11_Witness ==
    /\ op = "feature_importance"
    /\ exit = "done"
    /\ NumRows(df) > 1
    /\ \E c \in 1..Len(df.columns) : ~IsNumber(df.columns[c])

\* C12: two calls of feature_importance on the same table with the same target
\* give the same ordered ranking, whatever calls were made in between: every
\* earlier call with the target of the last one ended where the last one
\* ended, with the same scores and the same ranking.
C12_SameRankingAgain ==
    op = "feature_importance" =>
        \A f \in fitted :
            f.target = target =>
                /\ f.result.exit = exit
                /\ f.result.importances = importances
                /\ f.result.ranking = ranking

\* The last call repeated an earlier one after a call with another target had
\* built a ranking too, and ranked two features with the same score.
C12_Witness ==
    /\ op = "feature_importance"
    /\ recalled
    /\ exit = "done"
    /\ Len(ranking) = 2
    /\ ranking[1].importance = ranking[2].importance
    /\ \E f \in fitted : f.target # target /\ f.result.exit = "done"

-----------------------------------------------------------------------------
(* Bounds on the z-score method                                            *)

\* threshold >= (n - 1) / sqrt(n), for n > 0 rows.
AtLeastMeanBound(thr, n) ==
    /\ n > 0
    /\ thr.num >= 0
    /\ Square(thr.num) * n >= Square(n - 1) * Square(thr.den)

\* threshold >= sqrt(n - 1)
AtLeastRootBound(thr, n) ==
    /\ thr.num >= 0
    /\ Square(thr.num) >= (n - 1) * Square(thr.den)

-----------------------------------------------------------------------------
(* Properties of drop_rows                                                 *)

\* The frame without the rows at the 0-based positions s .. e.
WithoutPositions(t, s, e) ==
    BooleanIndex(t, [i \in 1..NumRows(t) |-> i < s + 1 \/ i > e + 1])

\* C13: after any sequence of calls, drop_rows((s, e)) succeeds exactly when
\* 0 <= s <= e < the current row count; it then removes the rows at the current
\* positions s .. e and no other, leaves the rest as they were and in order,
\* and appends one entry to changes_log.  Otherwise it raises ValueError
\* (TypeError when the argument is not a tuple of two ints) and leaves the
\* table and changes_log as they were.  Every row labelling is covered.
C13_DropRowsByPosition ==
    [][LET arg == index_range'
       IN  IF /\ IsTupleOfTwoInts(arg)
              /\ 0 <= arg.items[1].value
              /\ arg.items[1].value <= arg.items[2].value
              /\ arg.items[2].value < NumRows(clean)
           THEN /\ raised' = ""
                /\ clean' = WithoutPositions(clean, arg.items[1].value, arg.items[2].value)
                /\ Len(changes_log') = Len(changes_log) + 1
                /\ SubSeq(changes_log', 1, Len(changes_log)) = changes_log
           ELSE /\ raised' = (IF IsTupleOfTwoInts(arg) THEN "ValueError" ELSE "TypeError")
                /\ clean' = clean
                /\ changes_log' = changes_log]_vars

====
